---- MODULE Spec2Model ----
\* Model of the client connection context of polypaudio
\* (src/polyp/polyplib-context.c): the connection state machine, the
\* reference counted teardown, the tag allocator, the reply handlers and the
\* drain protocol.  Every handler of the C file is an operator on a record
\* "w" that bundles the variables; an action applies one handler.
EXTENDS Integers, Sequences, FiniteSets, TLC

VARIABLES
    c,          \* struct pa_context: the fields of the context
    held,       \* the caller still owns the reference pa_context_new gave it
    ops,        \* the operations created so far (struct pa_operation)
    strms,      \* the streams created so far (struct pa_stream)
    regs,       \* the reply dispatcher's pending registrations
    pd_drain,   \* the reply dispatcher's drain callback userdata (0: unset)
    ps_drain,   \* the packet transport's drain callback userdata (0: unset)
    ps_pending, \* the packet transport holds data it has not written yet
    hist,       \* every value assigned to c->state, with the handler that did
    nobs,       \* how many times the state callback was invoked
    lasttag,    \* the tag issued last (-1: none yet)
    trace,      \* what the most recent handler did, step by step
    lastop      \* the most recent handler and its input, when it is one that
                \* reports to the caller (a result, or a callback it may run)

vars == <<c, held, ops, strms, regs, pd_drain, ps_drain, ps_pending, hist,
          nobs, lasttag, trace, lastop>>

\* ---------------------------------------------------------------- bounds

MaxOps == 2
MaxStreams == 1
\* c->ctag is a uint32_t and wraps at 2^32; the model's counter wraps at TagMod
TagMod == 2

\* ------------------------------------------------------------- vocabulary

Terminal == {"FAILED", "TERMINATED"}
States == {"UNCONNECTED", "CONNECTING", "AUTHORIZING", "SETTING_NAME", "READY"}
              \cup Terminal

\* the error codes a server may put in an ERROR reply (a u32 on the wire)
ServerCodes == {"7", "3"}

\* what the caller's state callback does when it is invoked: "look" only
\* looks at the context, "disc" calls pa_context_disconnect() from inside the
\* notification, "unref" drops the caller's reference from inside the
\* notification of a terminal state
Reactions == {"look", "disc", "unref"}

\* the reactions that make a difference in the current state
React == IF c.state_callback THEN Reactions ELSE {"look"}

\* the same for a handler that may run a callback of an operation as well
ReactOp == IF c.state_callback THEN Reactions
           ELSE IF held THEN {"look", "unref"} ELSE {"look"}

Commands == {"REPLY", "ERROR", "TIMEOUT", "OTHER"}

\* a reply as its handler gets it: the command and the rest of the tagstruct
\* after command and tag (a success reply with nothing or with trailing data,
\* an ERROR with its code or cut short, another command)
Replies ==
    {[command |-> "REPLY", t |-> <<>>], [command |-> "REPLY", t |-> <<"7">>],
     [command |-> "ERROR", t |-> <<>>], [command |-> "OTHER", t |-> <<>>]}
        \cup {[command |-> "ERROR", t |-> <<e>>] : e \in ServerCodes}

OpIds == 1..MaxOps
StreamIds == 1..MaxStreams
Channels == 0..(MaxStreams - 1)

NoOp == [used |-> FALSE, kind |-> "none", state |-> "NONE", ref |-> 0,
         cbcount |-> 0, waitfor |-> {}]

NoStream == [used |-> FALSE, state |-> "NONE", dir |-> "none", channel |-> 0,
             read_callback |-> FALSE]

W == [c |-> c, held |-> held, ops |-> ops, strms |-> strms, regs |-> regs,
      pd_drain |-> pd_drain, ps_drain |-> ps_drain, ps_pending |-> ps_pending,
      hist |-> hist, nobs |-> nobs, lasttag |-> lasttag,
      trace |-> <<>>, op |-> "none", react |-> "look"]

\* the bundle at the start of the handler named op; react is what the state
\* callback will do if the handler invokes it
Start(op) == [W EXCEPT !.op = op]
StartR(op, react) == [W EXCEPT !.op = op, !.react = react]

\* what an observer (or a check) can see of the context at one moment
Snap(w) ==
    [state |-> w.c.state, error |-> w.c.error, client |-> w.c.client,
     pstream |-> w.c.pstream, pdispatch |-> w.c.pdispatch, ref |-> w.c.ref,
     freed |-> w.c.freed, linked |-> {w.c.streams[i] : i \in DOMAIN w.c.streams},
     sstate |-> [s \in StreamIds |-> w.strms[s].state],
     running |-> w.c.operations, regs |-> w.regs, lasttag |-> w.lasttag,
     ps_pending |-> w.ps_pending]

\* the handler's trace: what it did (ev), to what (x, n)
Ev(w, ev, x, n) ==
    [w EXCEPT !.trace = Append(@, [ev |-> ev, x |-> x, n |-> n])]

RECURSIVE pa_context_set_state(_, _)
RECURSIVE pa_context_unref(_)
RECURSIVE state_callback(_, _)

\* ------------------------------------------------- streams and operations

SeqWithout(s, x) == SelectSeq(s, LAMBDA y : y # x)

pa_stream_set_state(w, s, st) ==
    IF w.strms[s].state = st THEN w
    ELSE LET w1 == [w EXCEPT !.strms[s].state = st]
             w2 == IF st \in Terminal
                   THEN [w1 EXCEPT
                           !.c.streams = SeqWithout(@, s),
                           !.c.record_streams =
                               [ch \in Channels |-> IF @[ch] = s THEN 0 ELSE @[ch]],
                           !.c.playback_streams =
                               [ch \in Channels |-> IF @[ch] = s THEN 0 ELSE @[ch]]]
                   ELSE w1
         IN Ev(w2, "stream_state", st, s)

RECURSIVE TerminateStreams(_, _)
TerminateStreams(w, st) ==
    IF w.c.streams = <<>> THEN w
    ELSE TerminateStreams(pa_stream_set_state(w, Head(w.c.streams), st), st)

pa_operation_cancel(w, o) ==
    Ev([w EXCEPT !.ops[o].state = "CANCELED",
                 !.ops[o].ref = @ - 1,
                 !.c.operations = @ \ {o}], "cancel", "op", o)

RECURSIVE CancelOperations(_)
CancelOperations(w) ==
    IF w.c.operations = {} THEN w
    ELSE CancelOperations(
             pa_operation_cancel(w, CHOOSE o \in w.c.operations :
                                        \A p \in w.c.operations : o >= p))

\* ------------------------------------------------------ reference counting

ReleaseClient(w) ==
    IF w.c.client THEN Ev(w, "release", "client", 0) ELSE w

ReleasePdispatch(w) ==
    IF w.c.pdispatch
    THEN Ev([w EXCEPT !.regs = {}, !.pd_drain = 0], "release", "pdispatch", 0)
    ELSE w

ReleasePstream(w) ==
    IF w.c.pstream
    THEN Ev([w EXCEPT !.ps_pending = FALSE, !.ps_drain = 0], "release", "pstream", 0)
    ELSE w

\* context_free with the releases moved ahead of the two loops
context_free_ReleasesFirst(w) ==
    LET w1 == ReleaseClient(Ev(w, "freeing", "context", 0))
        w2 == ReleasePdispatch(w1)
        w3 == ReleasePstream(w2)
        w4 == CancelOperations(w3)
        w5 == TerminateStreams(w4, "TERMINATED")
    IN Ev([w5 EXCEPT !.c.freed = TRUE], "free", "context", 0)

context_free(w) ==
    LET w1 == CancelOperations(Ev(w, "freeing", "context", 0))
        w2 == TerminateStreams(w1, "TERMINATED")
        w3 == ReleaseClient(w2)
        w4 == ReleasePdispatch(w3)
        w5 == ReleasePstream(w4)
    IN Ev([w5 EXCEPT !.c.freed = TRUE], "free", "context", 0)

pa_context_ref(w) == [w EXCEPT !.c.ref = @ + 1]

pa_context_unref(w) ==
    LET w1 == [w EXCEPT !.c.ref = @ - 1]
    IN IF w1.c.ref = 0 THEN context_free(w1) ELSE w1

\* ----------------------------------------------------------- state machine

\* the teardown without the block that closes the packet transport
Teardown_KeepsTransport(w, st) ==
    LET w1 == TerminateStreams(w, IF st = "FAILED" THEN "FAILED" ELSE "TERMINATED")
        w2 == [ReleasePdispatch(w1) EXCEPT !.c.pdispatch = FALSE]
        w4 == [ReleaseClient(w2) EXCEPT !.c.client = FALSE]
    IN w4

\* the teardown without the block that releases the reply dispatcher
Teardown_KeepsDispatcher(w, st) ==
    LET w1 == TerminateStreams(w, IF st = "FAILED" THEN "FAILED" ELSE "TERMINATED")
        w3 == [ReleasePstream(w1) EXCEPT !.c.pstream = FALSE]
        w4 == [ReleaseClient(w3) EXCEPT !.c.client = FALSE]
    IN w4

\* the teardown without the block that releases the connector
Teardown_KeepsClient(w, st) ==
    LET w1 == TerminateStreams(w, IF st = "FAILED" THEN "FAILED" ELSE "TERMINATED")
        w2 == [ReleasePdispatch(w1) EXCEPT !.c.pdispatch = FALSE]
        w3 == [ReleasePstream(w2) EXCEPT !.c.pstream = FALSE]
    IN w3

Teardown(w, st) ==
    LET w1 == TerminateStreams(w, IF st = "FAILED" THEN "FAILED" ELSE "TERMINATED")
        w2 == [ReleasePdispatch(w1) EXCEPT !.c.pdispatch = FALSE]
        w3 == [ReleasePstream(w2) EXCEPT !.c.pstream = FALSE]
        w4 == [ReleaseClient(w3) EXCEPT !.c.client = FALSE]
    IN w4

\* c->state = st; the trace keeps what the context looked like just then
Commit(w, st) ==
    LET w1 == [w EXCEPT !.c.state = st,
                        !.hist = Append(@, [state |-> st,
                                            by |-> IF st \in Terminal THEN "-"
                                                   ELSE w.op])]
    IN [w1 EXCEPT !.trace = Append(@, [ev |-> "commit", x |-> st, n |-> 0,
                                       snap |-> Snap(w1)])]

\* pa_context_set_state whose early return covers TERMINATED only
pa_context_set_state_GuardTerminatedOnly(w, st) ==
    IF w.c.state = st /\ st = "TERMINATED" THEN Ev(w, "same", st, 0)
    ELSE LET owned == {w.c.streams[i] : i \in DOMAIN w.c.streams}
             w1 == pa_context_ref(Ev(w, "enter", st, 0))
             w2 == IF st \in Terminal THEN Teardown(w1, st) ELSE w1
             w3 == Commit(w2, st)
             w4 == IF w3.c.state_callback
                   THEN state_callback(w3, owned) ELSE w3
         IN pa_context_unref(Ev(w4, "leave", st, 0))

\* pa_context_set_state without the reference it holds across the callback
pa_context_set_state_NoRef(w, st) ==
    IF w.c.state = st THEN Ev(w, "same", st, 0)
    ELSE LET owned == {w.c.streams[i] : i \in DOMAIN w.c.streams}
             w1 == Ev(w, "enter", st, 0)
             w2 == IF st \in Terminal THEN Teardown(w1, st) ELSE w1
             w3 == Commit(w2, st)
             w4 == IF w3.c.state_callback
                   THEN state_callback(w3, owned) ELSE w3
         IN Ev(w4, "leave", st, 0)

pa_context_set_state(w, st) ==
    IF w.c.state = st THEN Ev(w, "same", st, 0)
    ELSE LET owned == {w.c.streams[i] : i \in DOMAIN w.c.streams}
             w1 == pa_context_ref(Ev(w, "enter", st, 0))
             w2 == IF st \in Terminal THEN Teardown(w1, st) ELSE w1
             w3 == Commit(w2, st)
             w4 == IF w3.c.state_callback
                   THEN state_callback(w3, owned) ELSE w3
         IN pa_context_unref(Ev(w4, "leave", st, 0))

pa_context_disconnect(w) == pa_context_set_state(w, "TERMINATED")

\* the caller's observer: c->state_callback(c, c->state_userdata)
state_callback(w, owned) ==
    LET w1 == [w EXCEPT !.nobs = @ + 1,
                        !.trace = Append(@, [ev |-> "obs", x |-> w.c.state, n |-> 0,
                                             snap |-> Snap(w), owned |-> owned])]
    IN CASE w.react = "disc" -> pa_context_disconnect(w1)
         [] w.react = "unref" /\ w.held /\ w.c.state \in Terminal ->
                pa_context_unref([w1 EXCEPT !.held = FALSE])
         [] OTHER -> w1

\* pa_context_fail that leaves c->error as it was
pa_context_fail_KeepsError(w, error) == pa_context_set_state(w, "FAILED")

pa_context_fail(w, error) ==
    pa_context_set_state([w EXCEPT !.c.error = error], "FAILED")

\* ------------------------------------------------------- sending requests

\* tag = c->ctag++
NextTag(w) ==
    [w EXCEPT !.c.ctag = (@ + 1) % TagMod, !.lasttag = w.c.ctag]

pa_pstream_send_tagstruct(w) == [w EXCEPT !.ps_pending = TRUE]

pa_pdispatch_register_reply(w, tag, handler, o) ==
    [w EXCEPT !.regs = @ \cup {[tag |-> tag, handler |-> handler, op |-> o]}]

FreeOp(w) == CHOOSE o \in OpIds : ~w.ops[o].used /\ \A p \in OpIds : p < o => w.ops[p].used

pa_operation_new(w, o, kind) ==
    pa_context_ref(
        [w EXCEPT !.ops[o] = [used |-> TRUE, kind |-> kind, state |-> "RUNNING",
                              ref |-> 2, cbcount |-> 0, waitfor |-> {}],
                  !.c.operations = @ \cup {o}])

pa_operation_done(w, o) ==
    IF w.ops[o].state # "RUNNING" THEN w
    ELSE pa_context_unref(
             Ev([w EXCEPT !.ops[o].state = "DONE",
                          !.ops[o].ref = @ - 1,
                          !.c.operations = @ \ {o}], "done", "op", o))

pa_operation_ref(w, o) == [w EXCEPT !.ops[o].ref = @ + 1]

pa_operation_unref(w, o) == Ev([w EXCEPT !.ops[o].ref = @ - 1], "op_unref", "op", o)

\* o->callback(o->context, [success,] o->userdata); the trace keeps which
\* operations had their callback run before this one
\* what a callback of the caller other than the state callback may do to
\* the context: drop the caller's reference
CallbackReaction(w) ==
    IF w.react = "unref" /\ w.held
    THEN pa_context_unref([w EXCEPT !.held = FALSE])
    ELSE w

UserCallback(w, o, success) ==
    CallbackReaction(
    [w EXCEPT !.ops[o].cbcount = @ + 1,
              !.trace = Append(@, [ev |-> "cb",
                                   x |-> IF success THEN "success" ELSE "failure",
                                   n |-> o,
                                   fired |-> {p \in OpIds : w.ops[p].cbcount > 0},
                                   state |-> w.c.state, error |-> w.c.error,
                                   regs |-> w.regs, ps_pending |-> w.ps_pending])])

pa_context_send_simple_command(w) ==
    LET o == FreeOp(w)
        w1 == pa_operation_new(w, o, "simple")
        tag == w1.c.ctag
        w2 == pa_pstream_send_tagstruct(NextTag(w1))
        w3 == pa_pdispatch_register_reply(w2, tag, "simple_ack", o)
    IN pa_operation_ref(w3, o)

pa_context_exit_daemon(w) == pa_pstream_send_tagstruct(NextTag(w))

\* ---------------------------------------------------------- reply handlers

\* pa_tagstruct_getu32 and pa_tagstruct_eof on the rest of the reply
pa_tagstruct_getu32_ok(t) == Len(t) >= 1
pa_tagstruct_eof(t) == Len(t) = 0

\* pa_context_handle_error that fails the context on every ERROR reply
pa_context_handle_error_FailsOnError(w, command, t) ==
    IF command = "ERROR"
    THEN IF ~pa_tagstruct_getu32_ok(t)
         THEN [w |-> pa_context_fail(w, "PA_ERROR_PROTOCOL"), r |-> -1]
         ELSE [w |-> pa_context_fail(w, t[1]), r |-> 0]
    ELSE IF command = "TIMEOUT"
    THEN [w |-> [w EXCEPT !.c.error = "PA_ERROR_TIMEOUT"], r |-> 0]
    ELSE [w |-> pa_context_fail(w, "PA_ERROR_PROTOCOL"), r |-> -1]

\* the trace keeps what pa_context_handle_error was given, what it returned
\* (h) and the state and last error it left, st being the state it found
Classified(h, command, t, st) ==
    [w |-> [h.w EXCEPT !.trace = Append(@, [ev |-> "classified", x |-> command,
                                            n |-> h.r, t |-> t, before |-> st,
                                            state |-> h.w.c.state,
                                            error |-> h.w.c.error])],
     r |-> h.r]

\* pa_context_handle_error that takes a timeout for a fatal error
pa_context_handle_error_TimeoutFatal(w, command, t) ==
    Classified(IF command = "ERROR"
               THEN IF ~pa_tagstruct_getu32_ok(t)
                    THEN [w |-> pa_context_fail(w, "PA_ERROR_PROTOCOL"), r |-> -1]
                    ELSE [w |-> [w EXCEPT !.c.error = t[1]], r |-> 0]
               ELSE [w |-> pa_context_fail(w, "PA_ERROR_PROTOCOL"), r |-> -1],
               command, t, w.c.state)

\* the result is the bundle and the C return value
pa_context_handle_error(w, command, t) ==
    Classified(IF command = "ERROR"
               THEN IF ~pa_tagstruct_getu32_ok(t)
                    THEN [w |-> pa_context_fail(w, "PA_ERROR_PROTOCOL"), r |-> -1]
                    ELSE [w |-> [w EXCEPT !.c.error = t[1]], r |-> 0]
               ELSE IF command = "TIMEOUT"
               THEN [w |-> [w EXCEPT !.c.error = "PA_ERROR_TIMEOUT"], r |-> 0]
               ELSE [w |-> pa_context_fail(w, "PA_ERROR_PROTOCOL"), r |-> -1],
               command, t, w.c.state)

\* h: what pa_context_handle_error made of the reply
SetupErrorResult(h) ==
    IF h.r < 0 THEN pa_context_fail(h.w, "PA_ERROR_PROTOCOL") ELSE h.w

SetupError(w, command, t) ==
    SetupErrorResult(pa_context_handle_error(w, command, t))

\* the handshake switch without the SET_NAME step
SetupReply_SkipsName(w) == pa_context_set_state(w, "READY")

SetupReply(w) ==
    IF w.c.state = "AUTHORIZING"
    THEN LET tag == w.c.ctag
             w1 == pa_pstream_send_tagstruct(NextTag(w))
             w2 == pa_pdispatch_register_reply(w1, tag, "setup", 0)
         IN pa_context_set_state(w2, "SETTING_NAME")
    ELSE pa_context_set_state(w, "READY")

setup_complete_callback(w, command, t) ==
    LET w1 == pa_context_ref(w)
        w2 == IF command # "REPLY" THEN SetupError(w1, command, t)
              ELSE SetupReply(w1)
    IN pa_context_unref(w2)

\* the first part of the simple-ack handler: r < 0 stands for "goto finish"
SimpleAckCheck(w, command, t) ==
    IF command # "REPLY"
    THEN pa_context_handle_error(w, command, t)
    ELSE IF ~pa_tagstruct_eof(t)
    THEN [w |-> pa_context_fail(w, "PA_ERROR_PROTOCOL"), r |-> -1]
    ELSE [w |-> w, r |-> 0]

\* the rest of the simple-ack handler without the jump over the callback
SimpleAckFinish_Always(h, command, o) ==
    pa_operation_unref(
        pa_operation_done(UserCallback(h.w, o, command = "REPLY" /\ h.r = 0), o), o)

\* the rest of the simple-ack handler: the callback unless "goto finish" was
\* taken, then the label finish
SimpleAckFinish(h, command, o) ==
    IF h.r < 0
    THEN pa_operation_unref(pa_operation_done(h.w, o), o)
    ELSE pa_operation_unref(
             pa_operation_done(UserCallback(h.w, o, command = "REPLY"), o), o)

pa_context_simple_ack_callback(w, command, t, o) ==
    SimpleAckFinish(SimpleAckCheck(w, command, t), command, o)

\* ------------------------------------------------------------------ drain

\* pa_context_is_pending that always finds something pending
pa_context_is_pending_Always(w) == TRUE

pa_context_is_pending(w) ==
    IF w.c.state # "READY" THEN FALSE
    ELSE w.ps_pending \/ w.regs # {}

\* the trace keeps what set_dispatch_callbacks found pending and which
\* drain callbacks it has set for operation o
Rearmed(w, o) ==
    [w EXCEPT !.trace = Append(@, [ev |-> "rearm", x |-> "drain", n |-> o,
                                   regs |-> w.regs # {}, unsent |-> w.ps_pending,
                                   pd |-> w.pd_drain = o, ps |-> w.ps_drain = o])]

\* set_dispatch_callbacks without the check of the reply dispatcher
set_dispatch_callbacks_IgnoresReplies(w, o) ==
    LET w1 == [w EXCEPT !.ps_drain = 0, !.pd_drain = 0]
        w3 == IF w1.ps_pending THEN [w1 EXCEPT !.ps_drain = o] ELSE w1
        done == ~w1.ps_pending
        w4 == IF ~done THEN pa_operation_ref(w3, o)
              ELSE pa_operation_done(UserCallback(w3, o, TRUE), o)
    IN pa_operation_unref(w4, o)

\* set_dispatch_callbacks that looks at the reply dispatcher only
set_dispatch_callbacks_IgnoresTransport(w, o) ==
    LET w1 == [w EXCEPT !.ps_drain = 0, !.pd_drain = 0]
        w3 == Rearmed(IF w1.regs # {} THEN [w1 EXCEPT !.pd_drain = o] ELSE w1, o)
        done == ~(w1.regs # {})
        w4 == IF ~done THEN pa_operation_ref(w3, o)
              ELSE pa_operation_done(UserCallback(w3, o, TRUE), o)
    IN pa_operation_unref(w4, o)

set_dispatch_callbacks(w, o) ==
    LET w1 == [w EXCEPT !.ps_drain = 0, !.pd_drain = 0]
        w2 == IF w1.regs # {} THEN [w1 EXCEPT !.pd_drain = o] ELSE w1
        w3 == Rearmed(IF w2.ps_pending THEN [w2 EXCEPT !.ps_drain = o] ELSE w2, o)
        done == ~(w1.regs # {}) /\ ~w2.ps_pending
        w4 == IF ~done THEN pa_operation_ref(w3, o)
              ELSE pa_operation_done(UserCallback(w3, o, TRUE), o)
    IN pa_operation_unref(w4, o)

\* the result is the bundle and the operation returned (0: NULL)
pa_context_drain(w) ==
    IF ~pa_context_is_pending(w) THEN [w |-> w, r |-> 0]
    ELSE LET o == FreeOp(w)
             w1 == pa_operation_new(w, o, "drain")
             w2 == [w1 EXCEPT !.ops[o].waitfor =
                        {p \in w.c.operations : w.ops[p].kind = "simple"}]
         IN [w |-> set_dispatch_callbacks(pa_operation_ref(w2, o), o), r |-> o]

\* ------------------------------------------------------ transport events

\* the reply dispatcher runs the handler of registration r, then reports
\* "drained" when nothing is pending any more
pa_pdispatch_handler(w, r, command, t) ==
    IF r.handler = "setup" THEN setup_complete_callback(w, command, t)
    ELSE pa_context_simple_ack_callback(w, command, t, r.op)

pa_pdispatch_drained(w) ==
    IF w.pd_drain # 0 /\ w.regs = {}
    THEN set_dispatch_callbacks(w, w.pd_drain) ELSE w

pa_pdispatch_run(w, r, command, t) ==
    pa_pdispatch_drained(
        pa_pdispatch_handler([w EXCEPT !.regs = @ \ {r}], r, command, t))

pstream_packet_callback(w, r, command, t) ==
    pa_context_unref(pa_pdispatch_run(pa_context_ref(w), r, command, t))

pstream_bad_packet(w) ==
    pa_context_unref(pa_context_fail(pa_context_ref(w), "PA_ERROR_PROTOCOL"))

\* pstream_die_callback that closes the context in place of failing it
pstream_die_callback_Disconnects(w) == pa_context_disconnect(w)

pstream_die_callback(w) == pa_context_fail(w, "PA_ERROR_CONNECTIONTERMINATED")

\* the packet transport has written everything it held
pa_pstream_flushed(w) ==
    LET w1 == [w EXCEPT !.ps_pending = FALSE]
    IN IF w1.ps_drain # 0 THEN set_dispatch_callbacks(w1, w1.ps_drain) ELSE w1

\* ------------------------------------------------------------- connecting

\* on_connection that holds on to the socket client
on_connection_KeepsClient(w, io) ==
    LET w1 == pa_context_ref(w)
        w2 == IF ~io THEN pa_context_fail(w1, "PA_ERROR_CONNECTIONREFUSED")
              ELSE LET tag == w1.c.ctag
                       v1 == [w1 EXCEPT !.c.pstream = TRUE, !.c.pdispatch = TRUE]
                       v2 == pa_pstream_send_tagstruct(NextTag(v1))
                       v3 == pa_pdispatch_register_reply(v2, tag, "setup", 0)
                   IN pa_context_set_state(v3, "AUTHORIZING")
    IN pa_context_unref(w2)

on_connection(w, io) ==
    LET w1 == [ReleaseClient(pa_context_ref(w)) EXCEPT !.c.client = FALSE]
        w2 == IF ~io THEN pa_context_fail(w1, "PA_ERROR_CONNECTIONREFUSED")
              ELSE LET tag == w1.c.ctag
                       v1 == [w1 EXCEPT !.c.pstream = TRUE, !.c.pdispatch = TRUE]
                       v2 == pa_pstream_send_tagstruct(NextTag(v1))
                       v3 == pa_pdispatch_register_reply(v2, tag, "setup", 0)
                   IN pa_context_set_state(v3, "AUTHORIZING")
    IN pa_context_unref(w2)

\* the steps of pa_context_connect that only return -1 when the cookie
\* cannot be read
ConnectSteps_NoKeyReturns(w, authkey, server) ==
    IF ~authkey
    THEN [w |-> w, r |-> -1]
    ELSE IF server = "invalid"
    THEN [w |-> pa_context_fail(w, "PA_ERROR_INVALIDSERVER"), r |-> -1]
    ELSE IF server = "refused"
    THEN [w |-> pa_context_fail(w, "PA_ERROR_CONNECTIONREFUSED"), r |-> -1]
    ELSE [w |-> pa_context_set_state([w EXCEPT !.c.client = TRUE], "CONNECTING"),
          r |-> 0]

\* the steps of pa_context_connect between its pa_context_ref and the label
\* finish.  authkey: the cookie file could be read; server: what became of
\* the address ("ok", "refused": no socket client, "invalid": not
\* resolvable).  The result is the bundle and the C return value.
ConnectSteps(w, authkey, server) ==
    IF ~authkey
    THEN [w |-> pa_context_fail(w, "PA_ERROR_AUTHKEY"), r |-> -1]
    ELSE IF server = "invalid"
    THEN [w |-> pa_context_fail(w, "PA_ERROR_INVALIDSERVER"), r |-> -1]
    ELSE IF server = "refused"
    THEN [w |-> pa_context_fail(w, "PA_ERROR_CONNECTIONREFUSED"), r |-> -1]
    ELSE [w |-> pa_context_set_state([w EXCEPT !.c.client = TRUE], "CONNECTING"),
          r |-> 0]

\* finish: pa_context_unref(c); return r
ConnectFinish(res) == [w |-> pa_context_unref(res.w), r |-> res.r]

pa_context_connect(w, authkey, server) ==
    ConnectFinish(ConnectSteps(pa_context_ref(w), authkey, server))

pa_context_set_state_callback(w, cb) == [w EXCEPT !.c.state_callback = cb]

\* a stream created by the caller on this context, linked into c->streams
\* and entered in the channel array of its direction
pa_stream_new(w, s, dir, ch) ==
    LET w1 == [w EXCEPT !.strms[s] = [used |-> TRUE, state |-> "READY",
                                      dir |-> dir, channel |-> ch,
                                      read_callback |-> FALSE],
                        !.c.streams = <<s>> \o @]
    IN IF dir = "record" THEN [w1 EXCEPT !.c.record_streams[ch] = s]
       ELSE [w1 EXCEPT !.c.playback_streams[ch] = s]

pa_stream_set_read_callback(w, s, cb) == [w EXCEPT !.strms[s].read_callback = cb]

\* pa_dynarray_get: the entry at index i, NULL (0) beyond the end
pa_dynarray_get(a, i) == IF i \in DOMAIN a THEN a[i] ELSE 0

\* s->read_callback(s, data, length, s->read_userdata); the callback may drop
\* the caller's reference to the context
read_callback(w, s) == CallbackReaction(Ev(w, "read", "stream", s))

\* pstream_memblock_callback that looks the channel up among the playback
\* streams
pstream_memblock_callback_Playback(w, channel) ==
    LET s == pa_dynarray_get(w.c.playback_streams, channel)
    IN IF s # 0 /\ w.strms[s].read_callback
       THEN pa_context_unref(read_callback(pa_context_ref(w), s))
       ELSE pa_context_unref(pa_context_ref(w))

pstream_memblock_callback(w, channel) ==
    LET s == pa_dynarray_get(w.c.record_streams, channel)
    IN IF s # 0 /\ w.strms[s].read_callback
       THEN pa_context_unref(read_callback(pa_context_ref(w), s))
       ELSE pa_context_unref(pa_context_ref(w))

\* ------------------------------------------------------------ specification

pa_context_new ==
    [ref |-> 1, state |-> "UNCONNECTED", error |-> "PA_ERROR_OK", ctag |-> 0,
     client |-> FALSE, pstream |-> FALSE, pdispatch |-> FALSE,
     state_callback |-> FALSE, operations |-> {}, streams |-> <<>>,
     record_streams |-> [ch \in Channels |-> 0],
     playback_streams |-> [ch \in Channels |-> 0], freed |-> FALSE]

NoInput == [cmd |-> "none", t |-> <<>>, op |-> 0, r |-> 0]

Init ==
    /\ c = pa_context_new
    /\ held = TRUE
    /\ ops = [o \in OpIds |-> NoOp]
    /\ strms = [s \in StreamIds |-> NoStream]
    /\ regs = {}
    /\ pd_drain = 0
    /\ ps_drain = 0
    /\ ps_pending = FALSE
    /\ hist = <<[state |-> "UNCONNECTED", by |-> "pa_context_new"]>>
    /\ nobs = 0
    /\ lasttag = -1
    /\ trace = <<>>
    /\ lastop = [name |-> "pa_context_new", in |-> NoInput]

\* the handlers whose runs lastop does not tell apart
Quiet == {"pa_context_set_state_callback", "pa_stream_new", "pa_context_unref",
          "pa_stream_set_read_callback",
          "pa_context_send_simple_command", "pa_context_exit_daemon",
          "pa_pstream_flushed"}

\* the variables after a handler that began in the current state and ended
\* in bundle w
Apply(w, in) ==
    /\ c' = w.c
    /\ held' = w.held
    /\ ops' = w.ops
    /\ strms' = w.strms
    /\ regs' = w.regs
    /\ pd_drain' = w.pd_drain
    /\ ps_drain' = w.ps_drain
    /\ ps_pending' = w.ps_pending
    /\ hist' = w.hist
    /\ nobs' = w.nobs
    /\ lasttag' = w.lasttag
    /\ trace' = w.trace
    /\ lastop' = [name |-> IF w.op \in Quiet THEN "-" ELSE w.op, in |-> in]

\* the same for a handler that returns a value
ApplyResult(res, in) == Apply(res.w, [in EXCEPT !.r = res.r])

\* the caller may use the context while it holds its reference
Caller == held /\ ~c.freed

Connect ==
    /\ Caller /\ c.state = "UNCONNECTED"
    /\ \E authkey \in BOOLEAN, server \in {"ok", "refused", "invalid"},
          react \in React :
         ApplyResult(pa_context_connect(StartR("pa_context_connect", react),
                                        authkey, server),
                     [NoInput EXCEPT !.cmd = IF authkey THEN server ELSE "nokey"])

Connected ==
    /\ ~c.freed /\ c.client /\ c.state = "CONNECTING"
    /\ \E io \in BOOLEAN, react \in React :
         Apply(on_connection(StartR("on_connection", react), io),
               [NoInput EXCEPT !.cmd = IF io THEN "io" ELSE "noio"])

Disconnect ==
    /\ Caller
    /\ \E react \in React :
         Apply(pa_context_disconnect(StartR("pa_context_disconnect", react)), NoInput)

Unref ==
    /\ Caller
    /\ Apply(pa_context_unref([Start("pa_context_unref") EXCEPT !.held = FALSE]),
             NoInput)

SetStateCallback ==
    /\ Caller /\ c.state = "UNCONNECTED"
    /\ \E cb \in BOOLEAN :
         /\ cb # c.state_callback
         /\ Apply(pa_context_set_state_callback(
                      Start("pa_context_set_state_callback"), cb), NoInput)

StreamNew ==
    /\ Caller /\ c.state = "READY"
    /\ \E s \in StreamIds, dir \in {"playback", "record"} :
         /\ ~strms[s].used /\ \A p \in StreamIds : p < s => strms[p].used
         /\ \E ch \in Channels :
              /\ (IF dir = "record" THEN c.record_streams[ch]
                  ELSE c.playback_streams[ch]) = 0
              /\ \A k \in Channels : k < ch =>
                     (IF dir = "record" THEN c.record_streams[k]
                      ELSE c.playback_streams[k]) # 0
              /\ Apply(pa_stream_new(Start("pa_stream_new"), s, dir, ch), NoInput)

SetReadCallback ==
    /\ Caller
    /\ \E s \in StreamIds, cb \in BOOLEAN :
         /\ strms[s].used /\ strms[s].state = "READY"
         /\ cb # strms[s].read_callback
         /\ Apply(pa_stream_set_read_callback(
                      Start("pa_stream_set_read_callback"), s, cb), NoInput)

\* a memory chunk arrives for a channel: one in use or the first one beyond
Memblock ==
    /\ ~c.freed /\ c.pstream
    /\ \E channel \in 0..MaxStreams, react \in {"look", "unref"} :
         /\ react = "unref" => held
         /\ Apply(pstream_memblock_callback(
                      StartR("pstream_memblock_callback", react), channel),
                  [NoInput EXCEPT !.op = channel])

SendSimple ==
    /\ Caller /\ c.state = "READY"
    /\ \E o \in OpIds : ~ops[o].used
    /\ Apply(pa_context_send_simple_command(Start("pa_context_send_simple_command")),
             NoInput)

ExitDaemon ==
    /\ Caller /\ c.state = "READY"
    /\ Apply(pa_context_exit_daemon(Start("pa_context_exit_daemon")), NoInput)

Drain ==
    /\ Caller /\ c.state = "READY"
    /\ \E o \in OpIds : ~ops[o].used
    /\ ApplyResult(pa_context_drain(Start("pa_context_drain")), NoInput)

Reply ==
    /\ ~c.freed /\ c.pstream
    /\ \E r \in regs, p \in Replies, react \in ReactOp :
         Apply(pstream_packet_callback(StartR("pstream_packet_callback", react), r,
                                       p.command, p.t),
               [NoInput EXCEPT !.cmd = p.command, !.t = p.t, !.op = r.op])

Timeout ==
    /\ ~c.freed /\ c.pdispatch
    /\ \E r \in regs, react \in ReactOp :
         Apply(pa_pdispatch_run(StartR("timeout", react), r, "TIMEOUT", <<>>),
               [NoInput EXCEPT !.cmd = "TIMEOUT", !.op = r.op])

BadPacket ==
    /\ ~c.freed /\ c.pstream
    /\ \E react \in React :
         Apply(pstream_bad_packet(StartR("pstream_bad_packet", react)), NoInput)

Die ==
    /\ ~c.freed /\ c.pstream
    /\ \E react \in React :
         Apply(pstream_die_callback(StartR("pstream_die_callback", react)), NoInput)

Flush ==
    /\ ~c.freed /\ c.pstream /\ ps_pending
    /\ Apply(pa_pstream_flushed(Start("pa_pstream_flushed")), NoInput)

Next ==
    \/ Connect
    \/ Connected
    \/ Disconnect
    \/ Unref
    \/ SetStateCallback
    \/ StreamNew
    \/ SetReadCallback
    \/ Memblock
    \/ SendSimple
    \/ ExitDaemon
    \/ Drain
    \/ Reply
    \/ Timeout
    \/ BadPacket
    \/ Die
    \/ Flush

Spec == Init /\ [][Next]_vars

\* a caller that issues commands and drains, and creates no stream
NextCommands ==
    \/ Connect
    \/ Connected
    \/ Disconnect
    \/ Unref
    \/ SetStateCallback
    \/ SendSimple
    \/ ExitDaemon
    \/ Drain
    \/ Reply
    \/ Timeout
    \/ BadPacket
    \/ Die
    \/ Flush

SpecCommands == Init /\ [][NextCommands]_vars

\* the pending traffic completes: weak fairness of Reply \/ Timeout and of
\* Flush, with the handlers' guards written out for ENABLED.  Every
\* registration gets its reply or its timeout, and the packet transport
\* writes out what it holds.
TrafficCompletes ==
    /\ \/ []<>~(~c.freed /\ c.pdispatch /\ regs # {})
       \/ []<><<Reply \/ Timeout>>_vars
    /\ \/ []<>~(~c.freed /\ c.pstream /\ ps_pending)
       \/ []<><<Flush>>_vars

\* the caller of SpecCommands on a connection whose traffic completes
SpecDrained == Init /\ [][NextCommands]_vars /\ TrafficCompletes

\* a caller that creates streams and issues simple commands, and neither
\* drains nor asks the daemon to exit
NextStreams ==
    \/ Connect
    \/ Connected
    \/ Disconnect
    \/ Unref
    \/ SetStateCallback
    \/ StreamNew
    \/ SetReadCallback
    \/ Memblock
    \/ SendSimple
    \/ Reply
    \/ Timeout
    \/ BadPacket
    \/ Die
    \/ Flush

SpecStreams == Init /\ [][NextStreams]_vars

\* the events of the connection do arrive: weak fairness of Connected and of
\* Reply \/ Timeout, with the handlers' guards written out for ENABLED.  The
\* connector calls on_connection once it has connected or given up, and the
\* reply dispatcher runs the handler of every registration on its reply or,
\* failing that, on its timeout.
EventsArrive ==
    /\ \/ []<>~(~c.freed /\ c.client /\ c.state = "CONNECTING")
       \/ []<><<Connected>>_vars
    /\ \/ []<>~(~c.freed /\ c.pdispatch /\ regs # {})
       \/ []<><<Reply \/ Timeout>>_vars

\* the same caller on a connection whose events do arrive
SpecProgress == Init /\ [][NextStreams]_vars /\ EventsArrive

TypeOK ==
    /\ c.state \in States
    /\ c.ref >= 0
    /\ c.ctag \in 0..(TagMod - 1)

\* ------------------------------------------------------------- properties

\* the places of the most recent handler's trace where it did ev
At(ev) == {i \in DOMAIN trace : trace[i].ev = ev}

StreamTerminal(st) == IF st = "FAILED" THEN "FAILED" ELSE "TERMINATED"

\* C1: whenever the state callback is invoked for a transition into FAILED
\* or TERMINATED, the connector, the packet transport and the reply
\* dispatcher are already absent, c->state already holds the new state, and
\* every stream the context owned when the transition began is already in
\* the matching terminal state and unlinked.
C1_TeardownBeforeObserver ==
    \A i \in At("obs") :
        trace[i].x \in Terminal =>
            /\ ~trace[i].snap.client
            /\ ~trace[i].snap.pstream
            /\ ~trace[i].snap.pdispatch
            /\ trace[i].snap.state = trace[i].x
            /\ trace[i].snap.linked = {}
            /\ trace[i].snap.regs = {}
            /\ \A s \in trace[i].owned :
                   trace[i].snap.sstate[s] = StreamTerminal(trace[i].x)

\* the observer is told of FAILED by a handler that had a stream to fail and
\* a transport and a dispatcher to release
C1_Witness ==
    \E i \in At("obs") :
        /\ trace[i].x = "FAILED"
        /\ trace[i].owned # {}
        /\ \E j \in At("release") : j < i /\ trace[j].x = "pstream"
        /\ \E j \in At("release") : j < i /\ trace[j].x = "pdispatch"

\* C2: the non-terminal states are entered only in the order UNCONNECTED,
\* CONNECTING, AUTHORIZING, SETTING_NAME, READY, each by its own event:
\* CONNECTING by pa_context_connect returning 0, AUTHORIZING by on_connection
\* with a channel, SETTING_NAME and READY by a success reply to the
\* handshake request; on entering AUTHORIZING and SETTING_NAME the request
\* has just been sent with the tag issued last and its reply is registered.
C2_Order ==
    /\ \A i \in 2..Len(hist) :
           /\ hist[i].state # "UNCONNECTED"
           /\ hist[i].state = "CONNECTING" =>
                  hist[i-1].state = "UNCONNECTED" /\ hist[i].by = "pa_context_connect"
           /\ hist[i].state = "AUTHORIZING" =>
                  hist[i-1].state = "CONNECTING" /\ hist[i].by = "on_connection"
           /\ hist[i].state = "SETTING_NAME" =>
                  hist[i-1].state = "AUTHORIZING"
                      /\ hist[i].by = "pstream_packet_callback"
           /\ hist[i].state = "READY" =>
                  hist[i-1].state = "SETTING_NAME"
                      /\ hist[i].by = "pstream_packet_callback"
    /\ \A i \in At("commit") :
           /\ trace[i].x = "CONNECTING" => lastop.in.cmd = "ok" /\ lastop.in.r = 0
           /\ trace[i].x = "AUTHORIZING" => lastop.in.cmd = "io"
           /\ trace[i].x \in {"SETTING_NAME", "READY"} =>
                  lastop.in.cmd = "REPLY" /\ lastop.in.op = 0
           /\ trace[i].x \in {"AUTHORIZING", "SETTING_NAME"} =>
                  /\ trace[i].snap.ps_pending
                  /\ trace[i].snap.regs =
                         {[tag |-> trace[i].snap.lasttag, handler |-> "setup", op |-> 0]}
           /\ trace[i].x = "READY" => trace[i].snap.regs = {}

\* the handshake has just completed: READY is entered and the whole chain
\* is in the history
C2_Witness ==
    /\ \E i \in At("commit") : trace[i].x = "READY"
    /\ Len(hist) = 5

\* C3 (as claimed): a reply to the AUTH or SET_NAME request that is an ERROR
\* or a TIMEOUT moves the context to FAILED; an ERROR carrying code 7 leaves
\* last error 7.
C3_HandshakeErrorFails ==
    (/\ lastop.name \in {"pstream_packet_callback", "timeout"}
     /\ lastop.in.op = 0
     /\ lastop.in.cmd \in {"ERROR", "TIMEOUT"})
        => /\ \E i \in At("commit") : trace[i].x = "FAILED"
           /\ lastop.in.t = <<"7">> =>
                  \E i \in At("commit") :
                      trace[i].x = "FAILED" /\ trace[i].snap.error = "7"

\* C4 (as claimed): pa_context_connect without a readable cookie returns
\* failure, leaves the state UNCONNECTED, notifies nobody and creates no
\* connector.
C4_NoKeyLeavesUnconnected ==
    (lastop.name = "pa_context_connect" /\ lastop.in.cmd = "nokey")
        => /\ lastop.in.r = -1
           /\ c.state = "UNCONNECTED"
           /\ At("obs") = {}
           /\ ~c.client

\* C4 (amended): pa_context_connect without a readable cookie returns
\* failure and creates no connector, and fails the context: FAILED is entered
\* with last error PA_ERROR_AUTHKEY and a registered state callback is told of
\* FAILED exactly once.
C4_NoKeyFailsContext ==
    (lastop.name = "pa_context_connect" /\ lastop.in.cmd = "nokey")
        => /\ lastop.in.r = -1
           /\ ~c.client
           /\ At("release") = {}
           /\ c.state \in Terminal
           /\ hist[2].state = "FAILED"
           /\ \E i \in At("commit") :
                  /\ trace[i].x = "FAILED"
                  /\ trace[i].snap.error = "PA_ERROR_AUTHKEY"
                  /\ ~trace[i].snap.client
                  /\ \A j \in At("commit") : j >= i
           /\ c.state_callback =>
                  Cardinality({i \in At("obs") : trace[i].x = "FAILED"}) = 1

\* connect has just failed for want of the cookie, with an observer watching
C4_Witness ==
    /\ lastop.name = "pa_context_connect"
    /\ lastop.in.cmd = "nokey"
    /\ c.state = "FAILED"
    /\ c.error = "PA_ERROR_AUTHKEY"
    /\ At("obs") # {}

\* the most recent handler delivered a reply (or a timeout) to the simple-ack
\* handler of operation lastop.in.op
SimpleReply ==
    /\ lastop.name \in {"pstream_packet_callback", "timeout"}
    /\ lastop.in.op # 0

\* the places where the user callback of operation o ran
CbOf(o) == {i \in At("cb") : trace[i].n = o}

Malformed ==
    \/ lastop.in.cmd = "REPLY" /\ lastop.in.t # <<>>
    \/ lastop.in.cmd = "ERROR" /\ lastop.in.t = <<>>
    \/ lastop.in.cmd = "OTHER"

\* C5 (as claimed): whatever reply reaches the simple-ack handler, the
\* operation's callback runs exactly once, with success=true only for a
\* well-formed success reply, and the operation is then done and unlinked.
C5_CallbackAlways ==
    SimpleReply =>
        /\ Cardinality(CbOf(lastop.in.op)) = 1
        /\ \A i \in CbOf(lastop.in.op) :
               (trace[i].x = "success") <=>
                   (lastop.in.cmd = "REPLY" /\ lastop.in.t = <<>>)
        /\ ops[lastop.in.op].state = "DONE"
        /\ lastop.in.op \notin c.operations

\* C5 (amended): for a well-formed success reply, an ERROR with a readable
\* code or a TIMEOUT the callback runs exactly once, with success=true only
\* for the success reply; for a malformed reply (a success reply with
\* trailing data, an ERROR cut short, another command) the callback does not
\* run and the context fails with PA_ERROR_PROTOCOL; in every case the
\* operation is then done and unlinked, and no callback ever runs twice.
C5_CallbackUnlessMalformed ==
    /\ \A o \in OpIds : ops[o].kind = "simple" => ops[o].cbcount <= 1
    /\ SimpleReply =>
        /\ ops[lastop.in.op].state = "DONE"
        /\ lastop.in.op \notin c.operations
        /\ ops[lastop.in.op].cbcount = Cardinality(CbOf(lastop.in.op))
        /\ ~Malformed =>
               /\ Cardinality(CbOf(lastop.in.op)) = 1
               /\ \A i \in CbOf(lastop.in.op) :
                      (trace[i].x = "success") <=> (lastop.in.cmd = "REPLY")
        /\ Malformed =>
               /\ CbOf(lastop.in.op) = {}
               /\ \E i \in At("commit") :
                      /\ trace[i].x = "FAILED"
                      /\ trace[i].snap.error = "PA_ERROR_PROTOCOL"

\* a malformed reply has just finished an operation without its callback
C5_Witness ==
    /\ SimpleReply
    /\ Malformed
    /\ ops[lastop.in.op].state = "DONE"
    /\ ops[lastop.in.op].cbcount = 0
    /\ c.state = "FAILED"

\* C6: on a READY context, an ERROR reply with a readable code changes
\* nothing of the connection (no state is entered, nothing is released, the
\* state stays READY), the callback gets success=false and last error is
\* the code received; an ERROR reply cut short before its code fails the
\* context with PA_ERROR_PROTOCOL.
C6_ErrorReply ==
    (SimpleReply /\ lastop.in.cmd = "ERROR") =>
        IF lastop.in.t # <<>>
        THEN /\ At("commit") = {}
             /\ c.state = "READY"
             /\ c.error = lastop.in.t[1]
             /\ At("free") = {} =>
                    At("release") = {} /\ c.pstream /\ c.pdispatch /\ ~c.freed
             /\ \E i \in CbOf(lastop.in.op) :
                    /\ trace[i].x = "failure"
                    /\ trace[i].state = "READY"
                    /\ trace[i].error = lastop.in.t[1]
        ELSE /\ c.state \in Terminal
             /\ c.error = "PA_ERROR_PROTOCOL"
             /\ \E i \in At("commit") :
                    /\ trace[i].x = "FAILED"
                    /\ trace[i].snap.error = "PA_ERROR_PROTOCOL"
                    /\ \A j \in At("commit") : j >= i

\* an operation has just been refused with code 3 and the context is READY
C6_Witness ==
    /\ SimpleReply
    /\ lastop.in.cmd = "ERROR"
    /\ lastop.in.t = <<"3">>
    /\ c.error = "3"
    /\ c.state = "READY"
    /\ ops[lastop.in.op].cbcount = 1

\* C7: entering TERMINATED or FAILED while already there does nothing: a
\* pa_context_disconnect on a TERMINATED context changes no field and calls
\* nobody, a disconnect from any other state notifies a registered state
\* callback exactly once, and no state is ever entered twice in a row.
C7_Idempotent ==
    [][/\ lastop'.name = "pa_context_disconnect" =>
              IF c.state = "TERMINATED"
              THEN /\ UNCHANGED <<c, held, ops, strms, regs, pd_drain, ps_drain,
                                  ps_pending, hist, nobs, lasttag>>
                   /\ At("obs")' = {}
              ELSE nobs' = nobs + (IF c.state_callback THEN 1 ELSE 0)
       /\ \A i \in 2..Len(hist') : hist'[i].state # hist'[i-1].state
       /\ nobs' - nobs = Cardinality(At("obs")')
       /\ Cardinality(At("obs")') =
              (IF c.state_callback THEN Cardinality(At("commit")') ELSE 0)]_vars

\* a second disconnect in a row, with the state callback registered and told
\* of the first only
C7_Witness ==
    /\ lastop.name = "pa_context_disconnect"
    /\ trace = <<[ev |-> "same", x |-> "TERMINATED", n |-> 0]>>
    /\ hist[Len(hist)].state = "TERMINATED"
    /\ hist[Len(hist) - 1].state = "READY"
    /\ c.state_callback
    /\ nobs = Len(hist) - 1

Drains == {o \in OpIds : ops[o].kind = "drain"}

\* C8: the completion callback of a drain operation runs at most once and
\* only after the callbacks of all the simple operations that were pending
\* when pa_context_drain was called; and once a READY context with a single
\* drain operation has nothing pending any more (no registration, nothing
\* unsent), that callback has run exactly once and the operation is done.
C8_DrainAfterAll ==
    /\ \A d \in Drains : ops[d].cbcount <= 1
    /\ \A i \in At("cb") :
           ops[trace[i].n].kind = "drain" =>
               /\ ops[trace[i].n].waitfor \subseteq trace[i].fired
               /\ trace[i].n \notin trace[i].fired
               /\ CbOf(trace[i].n) = {i}
               /\ trace[i].state = "READY"
    /\ (c.state = "READY" /\ ~c.freed /\ regs = {} /\ ~ps_pending
            /\ Cardinality(Drains) = 1) =>
           \A d \in Drains : ops[d].cbcount = 1 /\ ops[d].state = "DONE"

\* a drain callback has just run, after the callback of an operation that
\* was pending when the drain was requested
C8_Witness ==
    \E i \in At("cb") :
        /\ ops[trace[i].n].kind = "drain"
        /\ ops[trace[i].n].waitfor # {}
        /\ ops[trace[i].n].cbcount = 1
        /\ \E j \in At("cb") : j < i /\ trace[j].n \in ops[trace[i].n].waitfor

\* C9 (as claimed): every tag issued is the previous one plus one modulo the
\* width of the counter, starting from 0, and no two pending reply
\* registrations carry the same tag.
C9_TagsUnique ==
    /\ IF lasttag = -1 THEN c.ctag = 0 ELSE c.ctag = (lasttag + 1) % TagMod
    /\ \A r1, r2 \in regs : r1.tag = r2.tag => r1 = r2

\* the events of context_free, in the most recent handler's trace
FreeSegment ==
    {i \in DOMAIN trace : \E f \in At("freeing"), g \in At("free") : f < i /\ i <= g}

FailedFirst(e) ==
    \E i \in At("commit") :
        /\ trace[i].x = "FAILED"
        /\ trace[i].snap.error = e
        /\ \A j \in At("commit") : j >= i

\* C11: while a packet transport exists (AUTHORIZING, SETTING_NAME, READY) a
\* fatal transport event fails the context with the event's code: the
\* transport dying gives PA_ERROR_CONNECTIONTERMINATED, a packet the reply
\* dispatcher cannot dispatch gives PA_ERROR_PROTOCOL; the state entered
\* before FAILED was one of the three.
C11_TransportFatal ==
    /\ lastop.name = "pstream_die_callback" =>
           FailedFirst("PA_ERROR_CONNECTIONTERMINATED")
    /\ lastop.name = "pstream_bad_packet" => FailedFirst("PA_ERROR_PROTOCOL")
    /\ lastop.name \in {"pstream_die_callback", "pstream_bad_packet"} =>
           /\ c.state \in Terminal
           /\ \E k \in 2..Len(hist) :
                  /\ hist[k].state = "FAILED"
                  /\ hist[k-1].state \in {"AUTHORIZING", "SETTING_NAME", "READY"}
                  /\ \A m \in (k+1)..Len(hist) : hist[m].state = "TERMINATED"

\* the transport of a READY context has just died
C11_Witness ==
    /\ lastop.name = "pstream_die_callback"
    /\ c.state = "FAILED"
    /\ c.error = "PA_ERROR_CONNECTIONTERMINATED"
    /\ hist[Len(hist) - 1].state = "READY"

\* C12: when the connector completes the context lets go of it, whatever the
\* outcome; if it brought no channel the context goes from CONNECTING to
\* FAILED with PA_ERROR_CONNECTIONREFUSED, and no packet transport or reply
\* dispatcher has been or is ever created.
C12_ConnectorDiscarded ==
    /\ lastop.name = "on_connection" =>
           /\ ~c.client
           /\ \E i \in At("release") :
                  /\ trace[i].x = "client"
                  /\ \A j \in DOMAIN trace : j >= i
           /\ \A i \in At("obs") : ~trace[i].snap.client
           /\ lastop.in.cmd = "noio" =>
                  /\ FailedFirst("PA_ERROR_CONNECTIONREFUSED")
                  /\ \A i \in At("commit") \cup At("obs") :
                         ~trace[i].snap.pstream /\ ~trace[i].snap.pdispatch
    /\ (\E k \in 2..Len(hist) : hist[k].state = "FAILED" /\ hist[k-1].state = "CONNECTING")
           => /\ ~c.pstream /\ ~c.pdispatch
              /\ regs = {} /\ ~ps_pending /\ lasttag = -1
              /\ \A k \in 1..Len(hist) :
                     hist[k].state \notin {"AUTHORIZING", "SETTING_NAME", "READY"}

\* the connector has just reported failure and the context has failed
C12_Witness ==
    /\ lastop.name = "on_connection"
    /\ lastop.in.cmd = "noio"
    /\ c.state = "FAILED"
    /\ c.error = "PA_ERROR_CONNECTIONREFUSED"
    /\ ~c.client

\* the codes pa_context_fail is called with
FatalCodes ==
    {"PA_ERROR_AUTHKEY", "PA_ERROR_INVALIDSERVER", "PA_ERROR_CONNECTIONREFUSED",
     "PA_ERROR_CONNECTIONTERMINATED", "PA_ERROR_PROTOCOL"}

\* C13: a context in FAILED has a last error that names a failure cause, and
\* every entry into FAILED is at once reported to a registered state
\* callback, which sees FAILED and that error; a missing cookie, an
\* unresolvable address and a refused connection each fail the context with
\* their own code.
C13_FailedReported ==
    /\ c.state = "FAILED" =>
           /\ c.error \in FatalCodes
           /\ c.state_callback => nobs >= 1
    /\ \A i \in At("commit") :
           trace[i].x = "FAILED" =>
               /\ trace[i].snap.error \in FatalCodes
               /\ c.state_callback =>
                      /\ i + 1 \in At("obs")
                      /\ trace[i+1].x = "FAILED"
                      /\ trace[i+1].snap.state = "FAILED"
                      /\ trace[i+1].snap.error = trace[i].snap.error
    /\ lastop.name = "pa_context_connect" =>
           /\ lastop.in.cmd = "nokey" => FailedFirst("PA_ERROR_AUTHKEY")
           /\ lastop.in.cmd = "invalid" => FailedFirst("PA_ERROR_INVALIDSERVER")
           /\ lastop.in.cmd = "refused" => FailedFirst("PA_ERROR_CONNECTIONREFUSED")

\* a registered state callback has just been told of FAILED for an address
\* that could not be resolved
C13_Witness ==
    /\ c.state = "FAILED"
    /\ c.state_callback
    /\ \E i \in At("obs") :
           trace[i].x = "FAILED" /\ trace[i].snap.error = "PA_ERROR_INVALIDSERVER"

\* C14: pa_context_drain on a READY context with no reply registration
\* pending and nothing unsent returns NULL at once: no operation is created,
\* no drain callback is armed, no callback runs, and state, operation set
\* and last error stay as they were; with something pending it returns the
\* operation it created.
C14_DrainNothingPending ==
    [][lastop'.name = "pa_context_drain" =>
           IF regs = {} /\ ~ps_pending
           THEN /\ lastop'.in.r = 0
                /\ UNCHANGED <<c, held, ops, strms, regs, pd_drain, ps_drain,
                               ps_pending, hist, nobs, lasttag>>
                /\ trace' = <<>>
           ELSE /\ lastop'.in.r \in OpIds
                /\ ~ops[lastop'.in.r].used
                /\ ops'[lastop'.in.r].kind = "drain"]_vars

\* pa_context_drain has just returned NULL on a READY context on which an
\* operation had been completed before
C14_Witness ==
    /\ lastop.name = "pa_context_drain"
    /\ lastop.in.r = 0
    /\ c.state = "READY"
    /\ \E o \in OpIds : ops[o].state = "DONE"
    /\ Drains = {}


\* the streams whose data callback the most recent handler ran, in order
Reads == [i \in 1..Cardinality(At("read")) |->
             trace[CHOOSE k \in At("read") :
                       Cardinality({j \in At("read") : j <= k}) = i].n]

\* C15: a memory chunk for a channel without a record stream (an unknown
\* channel, or one that only a playback stream uses) runs no data callback
\* and changes nothing: state, last error, streams, channel tables and
\* operations stay as they were; the data callback runs, once, only for
\* the record stream entered at that very channel, and only if it has a
\* data callback set.
C15_MemblockRouting ==
    [][lastop'.name = "pstream_memblock_callback" =>
           LET ch == lastop'.in.op
               s == IF ch \in Channels THEN c.record_streams[ch] ELSE 0
           IN IF s # 0 /\ strms[s].read_callback
              THEN /\ Reads' = <<s>>
                   /\ strms[s].dir = "record"
                   /\ strms[s].channel = ch
                   /\ strms[s].state = "READY"
              ELSE /\ Reads' = <<>>
                   /\ trace' = <<>>
                   /\ UNCHANGED <<c, held, ops, strms, regs, pd_drain, ps_drain,
                                  ps_pending, hist, nobs, lasttag>>]_vars

\* a chunk has just arrived on a channel that only a playback stream with a
\* data callback uses, and nobody was called
C15_Witness ==
    /\ lastop.name = "pstream_memblock_callback"
    /\ trace = <<>>
    /\ c.state = "READY"
    /\ \E s \in StreamIds :
           /\ strms[s].state = "READY"
           /\ strms[s].dir = "playback"
           /\ strms[s].channel = lastop.in.op
           /\ strms[s].read_callback
           /\ c.playback_streams[lastop.in.op] = s
           /\ c.record_streams[lastop.in.op] = 0

\* C16: the callback of a drain operation never runs while a reply
\* registration is pending or the transport has unsent data: every run of
\* set_dispatch_callbacks, from pa_context_drain or from a drained
\* notification of either side, looks at both; if either has something
\* pending it sets the drain callback on exactly the sides that do and the
\* callback does not run then and the operation stays pending; otherwise
\* no drain callback is set and the callback runs right away.
C16_DrainRechecks ==
    /\ \A i \in At("cb") :
           ops[trace[i].n].kind = "drain" =>
               trace[i].regs = {} /\ ~trace[i].ps_pending
    /\ \A i \in At("rearm") :
           /\ trace[i].pd <=> trace[i].regs
           /\ trace[i].ps <=> trace[i].unsent
           /\ IF trace[i].regs \/ trace[i].unsent
              THEN /\ i + 1 \notin At("cb")
                   /\ (\A j \in At("rearm") : j <= i) =>
                          ops[trace[i].n].state = "RUNNING"
              ELSE /\ i + 1 \in At("cb")
                   /\ trace[i+1].n = trace[i].n
                   /\ ops[trace[i].n].state = "DONE"

\* the reply to the last pending request has just arrived while the
\* transport still had unsent data: the dispatcher reported "drained", the
\* drain operation was set to wait for the transport and its callback has
\* not run
C16_Witness ==
    /\ lastop.name = "pstream_packet_callback"
    /\ \E i \in At("rearm") :
           /\ ~trace[i].regs /\ trace[i].unsent
           /\ trace[i].ps /\ ~trace[i].pd
           /\ ops[trace[i].n].state = "RUNNING"
           /\ ops[trace[i].n].cbcount = 0
           /\ ops[trace[i].n].waitfor # {}
           /\ ps_drain = trace[i].n

\* the states in which a packet transport exists
Connected3 == {"AUTHORIZING", "SETTING_NAME", "READY"}

\* C17: whenever control is outside the handlers of the context, that is
\* between two handlers and inside the state callback, the packet transport
\* and the reply dispatcher are both there or both absent; they are there
\* exactly in AUTHORIZING, SETTING_NAME and READY, and the socket client is
\* there exactly in CONNECTING.
C17_TransportPair ==
    /\ ~c.freed =>
           /\ c.pstream <=> c.pdispatch
           /\ c.pstream <=> c.state \in Connected3
           /\ c.client <=> c.state = "CONNECTING"
    /\ \A i \in At("obs") :
           /\ trace[i].snap.pstream <=> trace[i].snap.pdispatch
           /\ trace[i].snap.pstream <=> trace[i].snap.state \in Connected3
           /\ trace[i].snap.client <=> trace[i].snap.state = "CONNECTING"

\* the state callback has just been told of AUTHORIZING and found the
\* transport and the dispatcher, and the context has since failed
C17_Witness ==
    /\ \E k \in 1..Len(hist) : hist[k].state = "AUTHORIZING"
    /\ c.state = "FAILED"
    /\ ~c.pstream /\ ~c.pdispatch /\ ~c.client /\ ~c.freed
    /\ \E i \in At("obs") : trace[i].x = "FAILED" /\ ~trace[i].snap.pstream

\* C18: pa_context_handle_error, for every command that is not a success
\* reply: an ERROR with a readable code stores the code as last error,
\* returns 0 and leaves the state alone; an ERROR cut short fails the context
\* with PA_ERROR_PROTOCOL and returns -1; a TIMEOUT stores PA_ERROR_TIMEOUT,
\* returns 0 and leaves the state alone; any other command fails the context
\* with PA_ERROR_PROTOCOL and returns -1.
C18_ErrorClasses ==
    \A i \in At("classified") :
        /\ trace[i].x \in Commands \ {"REPLY"}
        /\ IF \/ trace[i].x = "TIMEOUT"
              \/ trace[i].x = "ERROR" /\ trace[i].t # <<>>
           THEN /\ trace[i].n = 0
                /\ trace[i].error = (IF trace[i].x = "TIMEOUT"
                                      THEN "PA_ERROR_TIMEOUT" ELSE trace[i].t[1])
                /\ trace[i].state = trace[i].before
                /\ \A j \in DOMAIN trace : j < i => trace[j].ev = "classified"
           ELSE /\ trace[i].n = -1
                /\ trace[i].error = "PA_ERROR_PROTOCOL"
                /\ trace[i].state \in Terminal
                /\ \E j \in At("commit") :
                       /\ j < i
                       /\ trace[j].x = "FAILED"
                       /\ trace[j].snap.error = "PA_ERROR_PROTOCOL"
                       /\ \A k \in At("commit") : k >= j

\* a request on a READY context has just timed out
C18_Witness ==
    /\ lastop.name = "timeout"
    /\ lastop.in.op # 0
    /\ c.state = "READY"
    /\ c.error = "PA_ERROR_TIMEOUT"
    /\ \E i \in At("classified") :
           trace[i].x = "TIMEOUT" /\ trace[i].n = 0 /\ trace[i].before = "READY"

\* the context is freed at most once, when and only when the count of
\* references is zero, the count is never negative, the caller has then
\* given up its reference, and the state callback never finds a freed
\* context
FreedAtZero ==
    /\ c.ref >= 0
    /\ c.freed <=> c.ref = 0
    /\ c.freed => ~held
    /\ Cardinality(At("freeing")) <= 1
    /\ Cardinality(At("free")) = Cardinality(At("freeing"))
    /\ \A i \in At("obs") \cup At("commit") :
           trace[i].snap.ref >= 1 /\ ~trace[i].snap.freed
    /\ \A i \in At("free"), j \in At("obs") \cup At("cb") \cup At("read") : j < i

\* C19 (as claimed): the context is freed exactly once, exactly when the
\* count of references reaches zero, the count never goes below zero, and
\* the context is never freed while one of its handlers still has something
\* to do: being freed is the last thing that happens in a handler.
C19_NeverFreedInsideHandler ==
    /\ FreedAtZero
    /\ \A i \in At("free"), j \in DOMAIN trace : j <= i

\* C19 (amended): the context is freed exactly once, exactly when the count
\* of references reaches zero, and the count never goes below zero.  Under
\* the handlers that hold a reference of their own (pa_context_set_state,
\* the packet, memory chunk, handshake and connection handlers,
\* pa_context_connect) a callback that drops the caller's last reference
\* leaves the context alive until the handler's last unref.  The simple-ack
\* handler run by a timeout of the dispatcher and set_dispatch_callbacks run
\* by a drained notification of the transport hold none: there the context
\* is freed inside pa_operation_done when the finished operation held the
\* last reference, and all the handler does afterwards is to unref that
\* operation.
C19_FreedAtLastUnref ==
    /\ FreedAtZero
    /\ \A i \in At("free"), j \in DOMAIN trace :
           j > i =>
               /\ trace[j].ev = "op_unref"
               /\ j = i + 1
               /\ lastop.name \in {"timeout", "-"}
               /\ \E f \in At("freeing") :
                      /\ f > 1 /\ f < i
                      /\ trace[f-1].ev = "done"
                      /\ trace[f-1].n = trace[j].n

\* the transport has just died and the state callback, told of FAILED,
\* dropped the caller's reference, the last but the one pa_context_set_state
\* held: the context was freed at the end of the handler
C19_Witness ==
    /\ lastop.name = "pstream_die_callback"
    /\ c.freed
    /\ \E i \in At("obs") :
           /\ trace[i].x = "FAILED"
           /\ trace[i].snap.ref = 2
           /\ trace[i].snap.running = {}
    /\ \A i \in At("free"), j \in DOMAIN trace : j <= i

\* the state callback called pa_context_disconnect from inside the
\* notification at place i of the trace
Nested(i) ==
    /\ i \in At("obs")
    /\ i + 1 \in DOMAIN trace
    /\ trace[i+1].ev \in {"enter", "same"}
    /\ trace[i+1].x = "TERMINATED"

\* C20 (as claimed): when the state callback calls pa_context_disconnect from
\* inside a notification, of FAILED included, the context ends in TERMINATED,
\* the callback is invoked once for the outer state and once for TERMINATED,
\* nothing is released twice, and after the nested call has returned the
\* outer handler enters no further state and sends no further request.
C20_ReentrantDisconnect ==
    (\E i \in DOMAIN trace : Nested(i)) =>
        /\ c.state = "TERMINATED"
        /\ \A st \in States : Cardinality({i \in At("obs") : trace[i].x = st}) <= 1
        /\ Cardinality({i \in At("obs") : trace[i].x = "TERMINATED"}) = 1
        /\ \A k \in {"client", "pstream", "pdispatch"} :
               Cardinality({i \in At("release") : trace[i].x = k}) <= 1
        /\ Cardinality({i \in At("commit") : trace[i].x = "TERMINATED"}) = 1
        /\ \A i, j \in At("commit") : trace[i].x = "TERMINATED" => j <= i
        /\ regs = {} /\ ~ps_pending

\* the three parts of the connection a snapshot shows as present
Parts(snap) ==
    {x \in {"client", "pstream", "pdispatch"} :
        (x = "client" /\ snap.client) \/ (x = "pstream" /\ snap.pstream)
            \/ (x = "pdispatch" /\ snap.pdispatch)}

\* C21: FAILED and TERMINATED are absorbing with respect to the other
\* states.  Once the context has entered FAILED or TERMINATED every later
\* transition, by a caller operation or a late event, is into FAILED or
\* TERMINATED again, never into UNCONNECTED, CONNECTING, AUTHORIZING,
\* SETTING_NAME or READY; and no connector, packet transport or reply
\* dispatcher exists afterwards: none when a handler has returned on a
\* terminal context, and none at any commit or notification that follows a
\* terminal commit inside a handler.
C21_TerminalAbsorbing ==
    /\ \A i, j \in DOMAIN hist :
           i < j /\ hist[i].state \in Terminal => hist[j].state \in Terminal
    /\ c.state \in Terminal => ~c.client /\ ~c.pstream /\ ~c.pdispatch
    /\ \A i, j \in DOMAIN trace :
           /\ i <= j
           /\ trace[i].ev = "commit" /\ trace[i].x \in Terminal
           /\ trace[j].ev \in {"commit", "obs"}
           => Parts(trace[j].snap) = {}

\* a caller operation changed the state of a context that was terminal
\* already, after a connection had been set up
C21_Witness ==
    /\ lastop.name = "pa_context_disconnect"
    /\ c.state = "TERMINATED"
    /\ \E i, j, k \in DOMAIN hist :
           /\ i < j /\ j < k
           /\ hist[i].state = "AUTHORIZING"
           /\ hist[j].state = "FAILED"
           /\ hist[k].state = "TERMINATED"
    /\ \E i \in At("commit") : trace[i].x = "TERMINATED"

\* the context is between a successful pa_context_connect and the end of
\* the handshake
Handshaking ==
    ~c.freed /\ c.state \in {"CONNECTING", "AUTHORIZING", "SETTING_NAME"}

\* a registration whose handler is setup_complete_callback is pending
SetupPending == \E r \in regs : r.handler = "setup"

\* C22 (as claimed): handshake progress.  After pa_context_connect has
\* succeeded, on a connection whose connector completes and whose handshake
\* requests each get a reply or a timeout, the context reaches READY, FAILED
\* or TERMINATED (or is freed by its last owner); and it is never in
\* AUTHORIZING or SETTING_NAME without a handshake reply registration
\* pending.
C22_HandshakeProgress ==
    /\ [](~c.freed /\ c.state \in {"AUTHORIZING", "SETTING_NAME"} => SetupPending)
    /\ (Handshaking ~> (c.freed \/ c.state \in {"READY"} \cup Terminal))

\* drain operation d has had its callback run exactly once and is finished
DrainCompleted(d) == ops[d].cbcount = 1 /\ ops[d].state = "DONE"

\* C23 (as claimed): several drain requests may be outstanding at once.  No
\* drain operation has its callback run twice; on a READY context with
\* nothing pending any more (no registration, nothing unsent) every drain
\* operation, however many were requested, has had its callback run once and
\* is finished; and on a connection whose traffic completes a pending drain
\* operation leads to the context leaving READY or to that operation's
\* completion.
C23_ConcurrentDrains ==
    /\ [](\A d \in Drains : ops[d].cbcount <= 1)
    /\ []((c.state = "READY" /\ ~c.freed /\ regs = {} /\ ~ps_pending)
              => \A d \in Drains : DrainCompleted(d))
    /\ \A d \in OpIds :
           (ops[d].kind = "drain" /\ ops[d].state = "RUNNING")
               ~> (c.freed \/ c.state # "READY" \/ DrainCompleted(d))

====
